---- MODULE Spec2Model ----
(***************************************************************************)
(* A model of broth16 (a Groth16 implementation in TypeScript):            *)
(*   src/src/groth16.ts  lines 1-232   groth16.ts (setup, prove, verify)   *)
(*   src/src/groth16.ts  lines 234-431 poly.ts (polynomial algebra)        *)
(*   src/src/qap.ts      lines 1-107   qap.ts (R1CS -> QAP, solution poly) *)
(*                                                                         *)
(* The scalar field Fr of BLS12-381 is an external type; it is modelled    *)
(* by the prime field of order P.  A polynomial is the sequence of its     *)
(* coefficients, coefficient i of the code at index i+1 here.              *)
(***************************************************************************)
EXTENDS Integers, Sequences, FiniteSets, TLC

VARIABLES pc, call, ret, r1cs, qap, ts, pr, vr

vars == <<pc, call, ret, r1cs, qap, ts, pr, vr>>

(***************************************************************************)
(* The scalar field (Fr of @kevincharm/blstoise, used through its          *)
(* interface: zero, one, add, sub, mul, neg, inv, exp, equals).            *)
(***************************************************************************)
P == 5

Fr == 0..(P - 1)

FAdd(a, b) == (a + b) % P

FSub(a, b) == (a + P - b) % P

FMul(a, b) == (a * b) % P

FNeg(a) == (P - a) % P

RECURSIVE FExp(_, _)
FExp(a, e) == IF e = 0 THEN 1 ELSE FMul(a, FExp(a, e - 1))

\* inv() of a non-zero element; the zero element has no inverse and callers
\* that can pass it are guarded by InvThrows.
FInv(a) == FExp(a, P - 2)

InvThrows(a) == a = 0

\* new Fr(BigInt(k)): the integer k reduced into the field.
ToFr(k) == k % P

RECURSIVE SumSeq(_)
SumSeq(s) == IF s = <<>> THEN 0 ELSE FAdd(Head(s), SumSeq(Tail(s)))

Max(a, b) == IF a >= b THEN a ELSE b

\* Array.from({ length }, ...): a negative length gives the empty array.
ArrayLen(n) == IF n < 0 THEN 0 ELSE n

\* The array holding the entries f[1], ..., f[Len(f)], each computed once.
Array(f) == f \o <<>>

(***************************************************************************)
(* poly.ts                                                                 *)
(***************************************************************************)
zeroPoly(degree) == Array([i \in 1..ArrayLen(degree) |-> 0])

addPolys(lhs, rhs) ==
    Array([i \in 1..Max(Len(lhs), Len(rhs)) |->
        FAdd(FAdd(0, IF i <= Len(lhs) THEN lhs[i] ELSE 0),
             IF i <= Len(rhs) THEN rhs[i] ELSE 0)])

subPolys(lhs, rhs) ==
    Array([i \in 1..Max(Len(lhs), Len(rhs)) |->
        LET a == IF i <= Len(lhs) THEN lhs[i] ELSE 0
        IN  IF i <= Len(rhs) THEN FSub(a, rhs[i]) ELSE a])

\* mulPolys with the result array initialised to Fr.one() instead of Fr.zero().
mulPolysFromOne(lhs, rhs) ==
    Array([k \in 1..ArrayLen(Len(lhs) + Len(rhs) - 1) |->
        FAdd(1, SumSeq([i \in 1..Len(lhs) |->
                  IF k - i + 1 >= 1 /\ k - i + 1 <= Len(rhs)
                  THEN FMul(lhs[i], rhs[k - i + 1]) ELSE 0]))])

\* result[i + j] accumulates lhs[i] * rhs[j]; entry k (1-based) collects the
\* products with (i - 1) + (j - 1) = k - 1.
mulPolys(lhs, rhs) ==
    Array([k \in 1..ArrayLen(Len(lhs) + Len(rhs) - 1) |->
        SumSeq([i \in 1..Len(lhs) |->
                  IF k - i + 1 >= 1 /\ k - i + 1 <= Len(rhs)
                  THEN FMul(lhs[i], rhs[k - i + 1]) ELSE 0])])

\* divLoop without the inverse of the divisor's leading coefficient.
RECURSIVE divLoopNoInverse(_, _, _)
divLoopNoInverse(result, remainder, rhs) ==
    IF Len(remainder) >= Len(rhs)
    THEN LET leadingFactor == remainder[Len(remainder)]
             pos == Len(remainder) - Len(rhs)
             spent == zeroPoly(pos) \o <<leadingFactor>>
             diff == subPolys(remainder, mulPolys(rhs, spent))
         IN  divLoopNoInverse([result EXCEPT ![pos + 1] = leadingFactor],
                              SubSeq(diff, 1, Len(diff) - 1), rhs)
    ELSE [quotient |-> result, remainder |-> remainder]

\* The while loop of divPolys: one pass eliminates the highest-index term of
\* the running remainder and drops it (slice(0, -1)).
RECURSIVE divLoop(_, _, _)
divLoop(result, remainder, rhs) ==
    IF Len(remainder) >= Len(rhs)
    THEN LET leadingFactor == FMul(remainder[Len(remainder)], FInv(rhs[Len(rhs)]))
             pos == Len(remainder) - Len(rhs)
             spent == zeroPoly(pos) \o <<leadingFactor>>
             diff == subPolys(remainder, mulPolys(rhs, spent))
         IN  divLoop([result EXCEPT ![pos + 1] = leadingFactor],
                     SubSeq(diff, 1, Len(diff) - 1), rhs)
    ELSE [quotient |-> result, remainder |-> remainder]

divPolys(lhs, rhs) == divLoop(zeroPoly(Len(lhs) - Len(rhs) + 1), lhs, rhs)

evalPoly(p, x) == SumSeq([i \in 1..Len(p) |-> FMul(p[i], FExp(x, i - 1))])

\* Inner loop of zpoly: for (j = p; j < result.length - 1; j++)
\*     result[j] = result[j] - result[j + 1] * x      (0-based j)
RECURSIVE zpolyInner(_, _, _)
zpolyInner(result, j, x) ==
    IF j < Len(result) - 1
    THEN zpolyInner([result EXCEPT ![j + 1] = FSub(result[j + 1], FMul(result[j + 2], x))],
                    j + 1, x)
    ELSE result

\* Outer loop of zpoly: for (i = 0, p = result.length - 2; i < xs.length; i++, p--)
RECURSIVE zpolyOuter(_, _, _)
zpolyOuter(result, i, xs) ==
    IF i < Len(xs)
    THEN LET p == Len(result) - 2 - i
         IN  zpolyOuter(zpolyInner([result EXCEPT ![p + 1] = 0], p, xs[i + 1]), i + 1, xs)
    ELSE result

zpoly(xs) ==
    zpolyOuter(Array([i \in 1..(Len(xs) + 1) |-> IF i = Len(xs) + 1 THEN 1 ELSE 0]), 0, xs)

interpolateThrows(xs, ys) == Len(xs) # Len(ys)

\* interpolate multiplying by the denominators instead of their inverses.
interpolateNoInverse(xs, ys) ==
    LET root == zpoly(xs)
        numerators == Array([i \in 1..Len(xs) |-> divPolys(root, <<FNeg(xs[i]), 1>>).quotient])
        denominators == Array([i \in 1..Len(xs) |-> evalPoly(numerators[i], xs[i])])
    IN  Array([j \in 1..Len(xs) |->
            SumSeq([i \in 1..Len(xs) |->
                      IF numerators[i][j] # 0 /\ ys[i] # 0
                      THEN FMul(numerators[i][j], FMul(ys[i], denominators[i]))
                      ELSE 0])])

interpolate(xs, ys) ==
    LET root == zpoly(xs)
        numerators == Array([i \in 1..Len(xs) |-> divPolys(root, <<FNeg(xs[i]), 1>>).quotient])
        denominators == Array([i \in 1..Len(xs) |-> evalPoly(numerators[i], xs[i])])
        invDenValues == Array([i \in 1..Len(xs) |-> FInv(denominators[i])])
    IN  Array([j \in 1..Len(xs) |->
            SumSeq([i \in 1..Len(xs) |->
                      IF numerators[i][j] # 0 /\ ys[i] # 0
                      THEN FMul(numerators[i][j], FMul(ys[i], invDenValues[i]))
                      ELSE 0])])

\* matrix: a sequence of m rows, each a sequence of n entries.
transpose(matrix) ==
    Array([i \in 1..Len(matrix[1]) |-> Array([j \in 1..Len(matrix) |-> matrix[j][i]])])

(***************************************************************************)
(* qap.ts                                                                  *)
(***************************************************************************)
RECURSIVE tPolyLoop(_, _, _)
tPolyLoop(t, i, degree) ==
    IF i <= degree
    THEN tPolyLoop(mulPolys(t, <<FNeg(ToFr(i)), 1>>), i + 1, degree)
    ELSE t

\* tPoly with the loop `for (let i = 1n; i < degree; i++)`.
tPolyShort(degree) == tPolyLoop(<<1>>, 1, degree - 1)

tPoly(degree) == tPolyLoop(<<1>>, 1, degree)

\* fromR1csToQap interpolating the rows of A_t for Vpolys as well.
fromR1csToQapCopied(l, A, B, C) ==
    LET A_t == transpose(A)
        C_t == transpose(C)
        xs == Array([i \in 1..Len(A_t[1]) |-> ToFr(i)])
    IN  [l |-> l,
         u |-> Array([i \in 1..Len(A_t) |-> interpolate(xs, A_t[i])]),
         v |-> Array([i \in 1..Len(A_t) |-> interpolate(xs, A_t[i])]),
         w |-> Array([i \in 1..Len(C_t) |-> interpolate(xs, C_t[i])])]

\* fromR1csToQap(l, A, B, C): the evaluation points are 1..m, one per row of
\* the untransposed matrices (A_t[0].length).
fromR1csToQap(l, A, B, C) ==
    LET A_t == transpose(A)
        B_t == transpose(B)
        C_t == transpose(C)
        xs == Array([i \in 1..Len(A_t[1]) |-> ToFr(i)])
    IN  [l |-> l,
         u |-> Array([i \in 1..Len(A_t) |-> interpolate(xs, A_t[i])]),
         v |-> Array([i \in 1..Len(B_t) |-> interpolate(xs, B_t[i])]),
         w |-> Array([i \in 1..Len(C_t) |-> interpolate(xs, C_t[i])])]

\* rows.reduce((acc, row, i) => addPolys(acc, mulPolys([witness[i]], row)), [])
RECURSIVE combine(_, _, _, _)
combine(acc, rows, witness, i) ==
    IF i <= Len(rows)
    THEN combine(addPolys(acc, mulPolys(<<witness[i]>>, rows[i])), rows, witness, i + 1)
    ELSE acc

\* computeSolutionPoly with the loop `for (let i = 1n; i < u[0].length; i++)`.
computeSolutionPolyShort(witness, q) ==
    LET au == combine(<<>>, q.u, witness, 1)
        av == combine(<<>>, q.v, witness, 1)
        aw == combine(<<>>, q.w, witness, 1)
        ht == subPolys(mulPolys(au, av), aw)
    IN  IF \E i \in 1..(Len(q.u[1]) - 1) : evalPoly(ht, ToFr(i)) # 0
        THEN [err |-> "invalid witness", au |-> <<>>, av |-> <<>>, ht |-> <<>>]
        ELSE [err |-> "none", au |-> au, av |-> av, ht |-> ht]

\* computeSolutionPoly(witness, qap).  err is "none" when the call returns and
\* "invalid witness" when it throws `Solution polynomial does not evaluate to
\* zero at i`.
computeSolutionPoly(witness, q) ==
    LET au == combine(<<>>, q.u, witness, 1)
        av == combine(<<>>, q.v, witness, 1)
        aw == combine(<<>>, q.w, witness, 1)
        ht == subPolys(mulPolys(au, av), aw)
    IN  IF \E i \in 1..Len(q.u[1]) : evalPoly(ht, ToFr(i)) # 0
        THEN [err |-> "invalid witness", au |-> <<>>, av |-> <<>>, ht |-> <<>>]
        ELSE [err |-> "none", au |-> au, av |-> av, ht |-> ht]

\* computeDivisorPoly destructuring divPolys's pair the other way round:
\* const [remainder, h] = divPolys(ht, t).
computeDivisorPolySwapped(ht, t) ==
    LET d == divPolys(ht, t)
    IN  IF \E x \in 1..Len(d.quotient) : d.quotient[x] # 0
        THEN [err |-> "remainder", h |-> <<>>]
        ELSE [err |-> "none", h |-> d.remainder]

\* computeDivisorPoly(ht, t): err is "remainder" when it throws `Remainder is
\* not zero at x`.
computeDivisorPoly(ht, t) ==
    LET d == divPolys(ht, t)
    IN  IF \E x \in 1..Len(d.remainder) : d.remainder[x] # 0
        THEN [err |-> "remainder", h |-> <<>>]
        ELSE [err |-> "none", h |-> d.quotient]

(***************************************************************************)
(* groth16.ts.  A group element (PointG1, PointG2) is modelled by its       *)
(* discrete logarithm to the group's generator, a field element: the       *)
(* generator is 1, addition of points is addition of logarithms, scalar    *)
(* multiplication is multiplication, and the pairing of a*G1 with b*G2 is  *)
(* the target group's generator to the power a*b.                          *)
(***************************************************************************)
Generator == 1

PointMul(p, k) == FMul(p, k)

PointAdd(p, q) == FAdd(p, q)

PointNeg(p) == FNeg(p)

\* validatePairing(ps, qs): the product of the pairings e(ps[i], qs[i]) is the
\* identity of the target group.
validatePairing(ps, qs) == SumSeq([i \in 1..Len(ps) |-> FMul(ps[i], qs[i])]) = 0

\* points.reduce((acc, p) => acc.add(p)) without an initial value throws a
\* TypeError on an empty array.
ReduceThrows(points) == points = <<>>

ReduceAdd(points) == SumSeq(points)

\* scalars.map((x, i) => points[i].mul(x)): points[i] is undefined, and the
\* call throws, when the scalars outnumber the points.
MapMulThrows(scalars, points) == Len(scalars) > Len(points)

MapMul(scalars, points) == Array([i \in 1..Len(scalars) |-> PointMul(points[i], scalars[i])])

\* points.map((p, i) => p.mul(scalars[i].value)): scalars[i] is undefined, and
\* the call throws, when the points outnumber the scalars.
MapScaleThrows(points, scalars) == Len(points) > Len(scalars)

MapScale(points, scalars) == Array([i \in 1..Len(points) |-> PointMul(points[i], scalars[i])])

\* setup(qap) throws when gamma or delta has no inverse.
setupThrows(q, tau, alpha, beta, gamma, delta) == InvThrows(gamma) \/ InvThrows(delta)

\* setup splitting cG1 at l instead of l + 1.
setupSplitAtL(q, tau, alpha, beta, gamma, delta) ==
    LET degree == Len(q.u[1])
        tauG1 == Array([i \in 1..degree |-> PointMul(Generator, FExp(tau, i - 1))])
        tauG2 == Array([i \in 1..degree |-> PointMul(Generator, FExp(tau, i - 1))])
        betaU == Array([i \in 1..Len(q.u) |-> Array([j \in 1..Len(q.u[i]) |-> FMul(q.u[i][j], beta)])])
        alphaV == Array([i \in 1..Len(q.v) |-> Array([j \in 1..Len(q.v[i]) |-> FMul(q.v[i][j], alpha)])])
        cG1 == Array([i \in 1..Len(q.w) |->
                  PointMul(Generator, evalPoly(addPolys(addPolys(betaU[i], alphaV[i]), q.w[i]), tau))])
        invGamma == FInv(gamma)
        invDelta == FInv(delta)
        \* cG1.slice(0, l) and cG1.slice(l)
        pub == SubSeq(cG1, 1, IF q.l <= Len(cG1) THEN q.l ELSE Len(cG1))
        priv == SubSeq(cG1, q.l + 1, Len(cG1))
        tTau == evalPoly(tPoly(degree), tau)
    IN  [err |-> "none",
         power |-> degree,
         tauG1 |-> tauG1,
         tauG2 |-> tauG2,
         alphaG1 |-> PointMul(Generator, alpha),
         betaG1 |-> PointMul(Generator, beta),
         betaG2 |-> PointMul(Generator, beta),
         gammaG2 |-> PointMul(Generator, gamma),
         deltaG1 |-> PointMul(Generator, delta),
         deltaG2 |-> PointMul(Generator, delta),
         cTauPublicG1 |-> Array([i \in 1..Len(pub) |-> PointMul(pub[i], invGamma)]),
         cTauPrivateG1 |-> Array([i \in 1..Len(priv) |-> PointMul(priv[i], invDelta)]),
         tTauInvDeltaG1 |-> Array([i \in 1..Len(tauG1) |-> PointMul(PointMul(tauG1[i], tTau), invDelta)])]

setup(q, tau, alpha, beta, gamma, delta) ==
    LET degree == Len(q.u[1])
        tauG1 == Array([i \in 1..degree |-> PointMul(Generator, FExp(tau, i - 1))])
        tauG2 == Array([i \in 1..degree |-> PointMul(Generator, FExp(tau, i - 1))])
        betaU == Array([i \in 1..Len(q.u) |-> Array([j \in 1..Len(q.u[i]) |-> FMul(q.u[i][j], beta)])])
        alphaV == Array([i \in 1..Len(q.v) |-> Array([j \in 1..Len(q.v[i]) |-> FMul(q.v[i][j], alpha)])])
        cG1 == Array([i \in 1..Len(q.w) |->
                  PointMul(Generator, evalPoly(addPolys(addPolys(betaU[i], alphaV[i]), q.w[i]), tau))])
        invGamma == FInv(gamma)
        invDelta == FInv(delta)
        \* cG1.slice(0, l + 1) and cG1.slice(l + 1)
        pub == SubSeq(cG1, 1, IF q.l + 1 <= Len(cG1) THEN q.l + 1 ELSE Len(cG1))
        priv == SubSeq(cG1, q.l + 2, Len(cG1))
        tTau == evalPoly(tPoly(degree), tau)
    IN  [err |-> "none",
         power |-> degree,
         tauG1 |-> tauG1,
         tauG2 |-> tauG2,
         alphaG1 |-> PointMul(Generator, alpha),
         betaG1 |-> PointMul(Generator, beta),
         betaG2 |-> PointMul(Generator, beta),
         gammaG2 |-> PointMul(Generator, gamma),
         deltaG1 |-> PointMul(Generator, delta),
         deltaG2 |-> PointMul(Generator, delta),
         cTauPublicG1 |-> Array([i \in 1..Len(pub) |-> PointMul(pub[i], invGamma)]),
         cTauPrivateG1 |-> Array([i \in 1..Len(priv) |-> PointMul(priv[i], invDelta)]),
         tTauInvDeltaG1 |-> Array([i \in 1..Len(tauG1) |-> PointMul(PointMul(tauG1[i], tTau), invDelta)])]

\* The part of prove that does not read the blinding scalars r and s: the
\* prepared witness, the solution polynomials and the folds (lines 127-156 and
\* 168-170).  err names the first statement that throws.
proveSums(st, q, witness) ==
    LET preparedWitness == <<1>> \o witness
        sol == computeSolutionPoly(preparedWitness, q)
        div == computeDivisorPoly(sol.ht, tPoly(Len(q.u[1])))
        private == SubSeq(preparedWitness, q.l + 2, Len(preparedWitness))
        fail(e) == [err |-> e]
    IN  IF sol.err # "none" THEN fail(sol.err)
        ELSE IF MapMulThrows(sol.au, st.tauG1) THEN fail("undefined point")
        ELSE IF ReduceThrows(sol.au) THEN fail("reduce of empty array")
        ELSE IF MapMulThrows(sol.av, st.tauG1) THEN fail("undefined point")
        ELSE IF ReduceThrows(sol.av) THEN fail("reduce of empty array")
        ELSE IF div.err # "none" THEN fail(div.err)
        ELSE IF MapMulThrows(div.h, st.tTauInvDeltaG1) THEN fail("undefined point")
        ELSE IF ReduceThrows(div.h) THEN fail("reduce of empty array")
        ELSE IF MapMulThrows(private, st.cTauPrivateG1) THEN fail("undefined point")
        ELSE IF ReduceThrows(private) THEN fail("reduce of empty array")
        ELSE IF MapScaleThrows(st.cTauPublicG1, preparedWitness) THEN fail("undefined scalar")
        ELSE IF ReduceThrows(st.cTauPublicG1) THEN fail("reduce of empty array")
        ELSE [err |-> "none",
              sumA |-> ReduceAdd(MapMul(sol.au, st.tauG1)),
              sumBG1 |-> ReduceAdd(MapMul(sol.av, st.tauG1)),
              sumBG2 |-> ReduceAdd(MapMul(sol.av, st.tauG2)),
              htTauG1 |-> ReduceAdd(MapMul(div.h, st.tTauInvDeltaG1)),
              sumC |-> ReduceAdd(MapMul(private, st.cTauPrivateG1)),
              publicInputsSumG1 |-> ReduceAdd(MapScale(st.cTauPublicG1, preparedWitness))]

verificationKey(st) ==
    [alphaG1 |-> st.alphaG1, betaG2 |-> st.betaG2, gammaG2 |-> st.gammaG2,
     deltaG2 |-> st.deltaG2, cTauPublicG1 |-> st.cTauPublicG1]

\* The rest of prove: the blinded proof elements A, B, C, the optional
\* self-check and the returned { proof, vk }.  proof is <<A, C, BG2>>.
proveBlind(st, sums, r, s, shouldCheckProof) ==
    IF sums.err # "none" THEN [err |-> sums.err]
    ELSE
    LET A == PointAdd(PointAdd(st.alphaG1, sums.sumA), PointMul(st.deltaG1, r))
        BG1 == PointAdd(PointAdd(st.betaG1, sums.sumBG1), PointMul(st.deltaG1, s))
        BG2 == PointAdd(PointAdd(st.betaG2, sums.sumBG2), PointMul(st.deltaG2, s))
        negRsDelta == PointNeg(PointMul(st.deltaG1, FMul(r, s)))
        C == PointAdd(PointAdd(PointAdd(PointAdd(sums.sumC, sums.htTauG1), PointMul(A, s)),
                               PointMul(BG1, r)), negRsDelta)
        ps == <<PointNeg(A), st.alphaG1, sums.publicInputsSumG1, C>>
        qs == <<BG2, st.betaG2, st.gammaG2, st.deltaG2>>
    IN  IF shouldCheckProof /\ ~validatePairing(ps, qs)
        THEN [err |-> "pairing check failed"]
        ELSE [err |-> "none", proof |-> <<A, C, BG2>>, vk |-> verificationKey(st)]

prove(st, q, witness, r, s, shouldCheckProof) ==
    proveBlind(st, proveSums(st, q, witness), r, s, shouldCheckProof)

\* verifyError comparing publicInputs.length, without the constant-1 slot.
verifyErrorNoConstant(proof, publicInputs, vk) ==
    LET preparedPublicInputs == <<1>> \o publicInputs
    IN  IF Len(publicInputs) # Len(vk.cTauPublicG1) THEN "public input count"
        ELSE IF MapScaleThrows(vk.cTauPublicG1, preparedPublicInputs) THEN "undefined scalar"
        ELSE IF ReduceThrows(vk.cTauPublicG1) THEN "reduce of empty array"
        ELSE "none"

\* What verify throws, "none" when it returns: `Invalid number of public
\* inputs` on a count mismatch, else a TypeError of the fold.
verifyError(proof, publicInputs, vk) ==
    LET preparedPublicInputs == <<1>> \o publicInputs
    IN  IF Len(preparedPublicInputs) # Len(vk.cTauPublicG1) THEN "public input count"
        ELSE IF MapScaleThrows(vk.cTauPublicG1, preparedPublicInputs) THEN "undefined scalar"
        ELSE IF ReduceThrows(vk.cTauPublicG1) THEN "reduce of empty array"
        ELSE "none"

\* verify pairing the public-input sum with delta and C with gamma.
verifySwapped(proof, publicInputs, vk) ==
    LET A == proof[1]
        C == proof[2]
        BG2 == proof[3]
        preparedPublicInputs == <<1>> \o publicInputs
        publicInputsSumG1 == ReduceAdd(MapScale(vk.cTauPublicG1, preparedPublicInputs))
        ps == <<PointNeg(A), vk.alphaG1, publicInputsSumG1, C>>
        qs == <<BG2, vk.betaG2, vk.deltaG2, vk.gammaG2>>
    IN  validatePairing(ps, qs)

verify(proof, publicInputs, vk) ==
    LET A == proof[1]
        C == proof[2]
        BG2 == proof[3]
        preparedPublicInputs == <<1>> \o publicInputs
        publicInputsSumG1 == ReduceAdd(MapScale(vk.cTauPublicG1, preparedPublicInputs))
        ps == <<PointNeg(A), vk.alphaG1, publicInputsSumG1, C>>
        qs == <<BG2, vk.betaG2, vk.gammaG2, vk.deltaG2>>
    IN  validatePairing(ps, qs)

(***************************************************************************)
(* The pipeline R1CS -> fromR1csToQap -> setup -> prove -> verify, as the   *)
(* test `compute and verify proof` runs it.                                *)
(*   r1cs  the constraint system [l, A, B, C]                              *)
(*   qap   what fromR1csToQap returned                                     *)
(*   ts    what setup returned, or [err |-> ...] when it threw             *)
(*   pr    the witness given to prove and what prove returned or threw     *)
(*   vr    the inputs given to verify and what verify returned or threw    *)
(***************************************************************************)
None == [op |-> "none"]

NumVars(c) == Len(c.A[1])

NumRows(c) == Len(c.A)

BuildQap ==
    /\ pc = "r1cs"
    /\ qap' = fromR1csToQap(r1cs.l, r1cs.A, r1cs.B, r1cs.C)
    /\ pc' = "qap"
    /\ UNCHANGED <<call, ret, r1cs, ts, pr, vr>>

\* rnd: the values randomFr() may return for each scalar.
Setup(rnd) ==
    /\ pc = "qap"
    /\ \E tau \in rnd.tau, alpha \in rnd.alpha, beta \in rnd.beta,
          gamma \in rnd.gamma, delta \in rnd.delta :
          ts' = IF setupThrows(qap, tau, alpha, beta, gamma, delta)
                THEN [err |-> "inverse of zero"]
                ELSE setup(qap, tau, alpha, beta, gamma, delta)
    /\ pc' = "setup"
    /\ UNCHANGED <<call, ret, r1cs, qap, pr, vr>>

\* witnesses: the caller's witness vectors (without the constant-1 slot).
Prove(rnd, witnesses) ==
    /\ pc = "setup"
    /\ ts.err = "none"
    /\ \E witness \in {w \in witnesses : Len(w) = NumVars(r1cs) - 1} :
          \E sums \in {proveSums(ts, qap, witness)} :
              \E out \in {proveBlind(ts, sums, r, s, shouldCheckProof) :
                             r \in rnd.r, s \in rnd.s, shouldCheckProof \in BOOLEAN} :
                 pr' = [witness |-> witness, out |-> out]
    /\ pc' = "proved"
    /\ UNCHANGED <<call, ret, r1cs, qap, ts, vr>>

DoVerify(proof, publicInputs, vk) ==
    /\ vr' = IF verifyError(proof, publicInputs, vk) # "none"
             THEN [proof |-> proof, publicInputs |-> publicInputs,
                   err |-> verifyError(proof, publicInputs, vk)]
             ELSE [proof |-> proof, publicInputs |-> publicInputs,
                   err |-> "none", ok |-> verify(proof, publicInputs, vk)]
    /\ pc' = "verified"
    /\ UNCHANGED <<call, ret, r1cs, qap, ts, pr>>

\* const publicInputs = witness.slice(0, l); verify(proof, publicInputs, vk)
VerifyReturned ==
    /\ pc = "proved"
    /\ pr.out.err = "none"
    /\ DoVerify(pr.out.proof, SubSeq(pr.witness, 1, r1cs.l), pr.out.vk)

\* A proof as returned, or with one of its three elements moved by the
\* generator.
ProofCandidates(proof) == {proof} \cup {[proof EXCEPT ![k] = PointAdd(@, Generator)] : k \in 1..3}

\* Public-input vectors of every length up to l + 1.
PublicInputCandidates(l) == UNION {[1..k -> Fr] : k \in 0..l} \cup [1..(l + 1) -> {0, 1}]

\* verify with inputs of the caller's choosing against the returned key.
VerifyAny ==
    /\ pc = "proved"
    /\ pr.out.err = "none"
    /\ \E proof \in ProofCandidates(pr.out.proof),
          publicInputs \in PublicInputCandidates(r1cs.l) :
          DoVerify(proof, publicInputs, pr.out.vk)

(***************************************************************************)
(* Constraint systems.  A gate is one row of each of A, B and C over the   *)
(* variables [1, x, y].                                                    *)
(***************************************************************************)
\* x * x = y
GateSquare == [a |-> <<0, 1, 0>>, b |-> <<0, 1, 0>>, c |-> <<0, 0, 1>>]

\* 1 * 1 = 1
GateOne == [a |-> <<1, 0, 0>>, b |-> <<1, 0, 0>>, c |-> <<1, 0, 0>>]

\* (x + 1) * 1 = y
GateInc == [a |-> <<1, 1, 0>>, b |-> <<1, 0, 0>>, c |-> <<0, 0, 1>>]

\* 2x * (y + 3) = 4
GateMix == [a |-> <<0, 2, 0>>, b |-> <<3, 0, 1>>, c |-> <<4, 0, 0>>]

\* y * x = x + 2y
GateLin == [a |-> <<0, 0, 1>>, b |-> <<0, 1, 0>>, c |-> <<0, 1, 2>>]

\* 0 * 0 = 0
GateZero == [a |-> <<0, 0, 0>>, b |-> <<0, 0, 0>>, c |-> <<0, 0, 0>>]

\* The R1CS of a sequence of gates over the first n variables, public up to l.
R1csOf(gates, n, l) ==
    [l |-> l,
     A |-> Array([k \in 1..Len(gates) |-> SubSeq(gates[k].a, 1, n)]),
     B |-> Array([k \in 1..Len(gates) |-> SubSeq(gates[k].b, 1, n)]),
     C |-> Array([k \in 1..Len(gates) |-> SubSeq(gates[k].c, 1, n)])]

\* The R1CS of the test (x^3 + x + 5 = 35 over [1, x, output, t1, y, t2]) and
\* its witness [3, 35, 9, 27, 30], reduced into the field.
TestR1cs ==
    [l |-> 1,
     A |-> <<<<0, 1, 0, 0, 0, 0>>, <<0, 0, 0, 1, 0, 0>>, <<0, 1, 0, 0, 1, 0>>,
             <<ToFr(5), 0, 0, 0, 0, 1>>>>,
     B |-> <<<<0, 1, 0, 0, 0, 0>>, <<0, 1, 0, 0, 0, 0>>, <<1, 0, 0, 0, 0, 0>>,
             <<1, 0, 0, 0, 0, 0>>>>,
     C |-> <<<<0, 0, 0, 1, 0, 0>>, <<0, 0, 0, 0, 1, 0>>, <<0, 0, 0, 0, 0, 1>>,
             <<0, 0, 1, 0, 0, 0>>>>]

TestWitness == <<ToFr(3), ToFr(35), ToFr(9), ToFr(27), ToFr(30)>>

Dot(row, s) == SumSeq([i \in 1..Len(row) |-> FMul(row[i], s[i])])

\* Row k of the R1CS holds of the full witness s: (A_k . s) * (B_k . s) = C_k . s
RowHolds(c, s, k) == FMul(Dot(c.A[k], s), Dot(c.B[k], s)) = Dot(c.C[k], s)

Satisfies(c, s) == \A k \in 1..NumRows(c) : RowHolds(c, s, k)

(***************************************************************************)
(* The pipeline with every value of the random scalars.                    *)
(***************************************************************************)
MaxRows == 2

AllRandom ==
    [tau |-> Fr, alpha |-> Fr, beta |-> Fr, gamma |-> Fr, delta |-> Fr, r |-> Fr, s |-> Fr]

\* x * x = y followed by m - 1 rows 1 * 1 = 1.
SquareGates(m) == Array([k \in 1..m |-> IF k = 1 THEN GateSquare ELSE GateOne])

Circuits ==
    {TestR1cs} \cup {R1csOf(SquareGates(m), 3, l) : m \in 1..MaxRows, l \in 0..2}

Witnesses == {TestWitness, <<3, 4>>, <<3, 0>>}

Init ==
    /\ pc = "r1cs"
    /\ r1cs \in Circuits
    /\ call = None /\ ret = None
    /\ qap = None /\ ts = None /\ pr = None /\ vr = None

Next ==
    \/ BuildQap
    \/ Setup(AllRandom)
    \/ Prove(AllRandom, Witnesses)
    \/ VerifyReturned

Spec == Init /\ [][Next]_vars

(***************************************************************************)
(* The pipeline with verify's inputs chosen freely and some values of the  *)
(* random scalars.                                                         *)
(***************************************************************************)
SomeRandom ==
    [tau |-> Fr, alpha |-> Fr, beta |-> Fr, gamma |-> {0, 1, 3}, delta |-> {0, 1, 2},
     r |-> {0, 2}, s |-> {1}]

VerifyCircuits == {R1csOf(SquareGates(m), 3, l) : m \in 1..MaxRows, l \in 0..1}

VerifyWitnesses == {<<3, 4>>, <<2, 4>>, <<2, 3>>}

VerifyInit ==
    /\ pc = "r1cs"
    /\ r1cs \in VerifyCircuits
    /\ call = None /\ ret = None
    /\ qap = None /\ ts = None /\ pr = None /\ vr = None

VerifyNext ==
    \/ BuildQap
    \/ Setup(SomeRandom)
    \/ Prove(SomeRandom, VerifyWitnesses)
    \/ VerifyAny

SpecVerify == VerifyInit /\ [][VerifyNext]_vars

(***************************************************************************)
(* The pipeline over many constraint systems and every witness, with one   *)
(* draw of the random scalars.                                             *)
(***************************************************************************)
OneDraw ==
    [tau |-> {2}, alpha |-> {3}, beta |-> {4}, gamma |-> {2}, delta |-> {3},
     r |-> {1}, s |-> {4}]

Gates == {GateSquare, GateOne, GateInc, GateMix, GateLin, GateZero}

GateSeqs(n) == UNION {[1..m -> Gates] : m \in 1..n}

QapCircuits ==
    {R1csOf(gates, n, l) : gates \in GateSeqs(MaxRows), n \in {2, 3}, l \in 0..1}

AllWitnesses == [1..1 -> Fr] \cup [1..2 -> Fr]

QapInit ==
    /\ pc = "r1cs"
    /\ r1cs \in QapCircuits
    /\ call = None /\ ret = None
    /\ qap = None /\ ts = None /\ pr = None /\ vr = None

QapNext ==
    \/ BuildQap
    \/ Setup(OneDraw)
    \/ Prove(OneDraw, AllWitnesses)
    \/ VerifyReturned

SpecQap == QapInit /\ [][QapNext]_vars

(***************************************************************************)
(* Inputs of the polynomial algebra.                                       *)
(***************************************************************************)
MaxLen == 2

MaxDivisorLen == 3

MaxOperandLen == 2

MaxPoints == 3

MaxDegree == 4

Polys(n) == UNION {[1..k -> Fr] : k \in 0..n}

\* Polynomials with coefficients 0, 1 and -1.
SmallPolys(n) == UNION {[1..k -> {0, 1, P - 1}] : k \in 0..n}

\* Polynomials with coefficients 0 and 1.
BitPolys(n) == UNION {[1..k -> {0, 1}] : k \in 0..n}

\* Non-empty divisors whose highest-index coefficient is non-zero.
Divisors(n) == {q \in Polys(n) : q # <<>> /\ q[Len(q)] # 0}

\* Sequences of pairwise distinct field elements.
DistinctSeqs(n) == {xs \in Polys(n) : \A i, j \in 1..Len(xs) : i # j => xs[i] # xs[j]}

PolyInit ==
    /\ pc = "call"
    /\ \/ \E p \in Polys(MaxLen), q \in Divisors(MaxDivisorLen) :
             call = [op |-> "divPolys", lhs |-> p, rhs |-> q]
       \/ \E xs \in DistinctSeqs(MaxPoints) : \E ys \in [1..Len(xs) -> Fr] :
             call = [op |-> "interpolate", xs |-> xs, ys |-> ys]
       \/ \E m \in 1..MaxDegree :
             call = [op |-> "tPoly", degree |-> m]
       \/ \E p \in SmallPolys(MaxOperandLen), q \in SmallPolys(MaxOperandLen),
             r \in BitPolys(MaxOperandLen) :
             call = [op |-> "mulAdd", p |-> p, q |-> q, r |-> r]
    /\ ret = None
    /\ r1cs = None /\ qap = None /\ ts = None /\ pr = None /\ vr = None

CallDivPolys ==
    /\ pc = "call" /\ call.op = "divPolys"
    /\ ret' = divPolys(call.lhs, call.rhs)
    /\ pc' = "done"
    /\ UNCHANGED <<call, r1cs, qap, ts, pr, vr>>

CallInterpolate ==
    /\ pc = "call" /\ call.op = "interpolate"
    /\ ~interpolateThrows(call.xs, call.ys)
    /\ ret' = interpolate(call.xs, call.ys)
    /\ pc' = "done"
    /\ UNCHANGED <<call, r1cs, qap, ts, pr, vr>>

CallTPoly ==
    /\ pc = "call" /\ call.op = "tPoly"
    /\ ret' = tPoly(call.degree)
    /\ pc' = "done"
    /\ UNCHANGED <<call, r1cs, qap, ts, pr, vr>>

\* mulPolys applied to a sum: mulPolys(p, addPolys(q, r)).
CallMulAdd ==
    /\ pc = "call" /\ call.op = "mulAdd"
    /\ ret' = mulPolys(call.p, addPolys(call.q, call.r))
    /\ pc' = "done"
    /\ UNCHANGED <<call, r1cs, qap, ts, pr, vr>>

PolyNext == CallDivPolys \/ CallInterpolate \/ CallTPoly \/ CallMulAdd

SpecPoly == PolyInit /\ [][PolyNext]_vars

(***************************************************************************)
(* Properties of the pipeline (Spec).                                      *)
(***************************************************************************)
Proved == pc \in {"proved", "verified"}

FullWitness == <<1>> \o pr.witness

\* C1: completeness.  For a witness satisfying the R1CS, prove returns a proof
\* (setup having returned, so with gamma and delta invertible), and verify on
\* the returned proof, the witness's public inputs and the returned key
\* returns true.
C1_Completeness ==
    /\ (Proved /\ Satisfies(r1cs, FullWitness)) => pr.out.err = "none"
    /\ pc = "verified" => (vr.err = "none" /\ vr.ok)

\* C2: degenerate circuit.  For a single-constraint R1CS (m = 1) the QAP
\* polynomials have stored length 1, and for a satisfying witness prove returns
\* a proof, without raising, that verify accepts.
C2_DegenerateCircuit ==
    NumRows(r1cs) = 1 =>
        /\ pc # "r1cs" =>
              \A i \in 1..NumVars(r1cs) :
                 Len(qap.u[i]) = 1 /\ Len(qap.v[i]) = 1 /\ Len(qap.w[i]) = 1
        /\ (Proved /\ Satisfies(r1cs, FullWitness)) => pr.out.err = "none"
        /\ pc = "verified" => (vr.err = "none" /\ vr.ok)

(***************************************************************************)
(* Properties of verify (SpecVerify).                                      *)
(***************************************************************************)
\* The public inputs of the witness given to prove: witness.slice(0, l).
WitnessPublicInputs == SubSeq(pr.witness, 1, r1cs.l)

\* verify was given the proof prove returned and a public-input vector of the
\* right length that differs from the witness's public inputs.
WrongPublicInput ==
    /\ pc = "verified"
    /\ vr.proof = pr.out.proof
    /\ Len(vr.publicInputs) = r1cs.l
    /\ vr.publicInputs # WitnessPublicInputs

\* The point the public inputs fold to against the key's public G1 sequence.
PublicFold(publicInputs) == ReduceAdd(MapScale(pr.out.vk.cTauPublicG1, <<1>> \o publicInputs))

\* C3 as stated: verify with a wrong public input returns false.
C3_WrongPublicInputRejected == WrongPublicInput => (vr.err = "none" /\ ~vr.ok)

\* C3 as amended: verify with a wrong public input returns false unless the
\* wrong vector folds to the same point as the witness's public inputs against
\* the key's public G1 sequence, and then it returns true.
C3_WrongPublicInputRejectedUnlessSameFold ==
    WrongPublicInput =>
        /\ vr.err = "none"
        /\ vr.ok <=> PublicFold(vr.publicInputs) = PublicFold(WitnessPublicInputs)

C3_Witness == WrongPublicInput /\ vr.err = "none" /\ ~vr.ok

\* C4: verify raises exactly when the number of public inputs plus one differs
\* from the length of the key's public G1 sequence; with the right count it
\* returns a boolean, also for a proof that fails the pairing equation.
C4_VerifyRaisesOnlyOnCount ==
    pc = "verified" =>
        IF Len(vr.publicInputs) + 1 # Len(pr.out.vk.cTauPublicG1)
        THEN vr.err = "public input count"
        ELSE vr.err = "none" /\ vr.ok \in BOOLEAN

C4_Witness ==
    /\ pc = "verified"
    /\ vr.proof # pr.out.proof
    /\ Len(vr.publicInputs) + 1 = Len(pr.out.vk.cTauPublicG1)
    /\ vr.err = "none" /\ ~vr.ok

(***************************************************************************)
(* Properties of the QAP builder (SpecQap).                                *)
(***************************************************************************)
\* C5: computeSolutionPoly raises the invalid-witness error for a full-length
\* witness that violates a row, so prove raises it and returns no proof; for a
\* witness satisfying every row computeSolutionPoly raises nothing.
C5_InvalidWitnessRejected ==
    Proved =>
        IF Satisfies(r1cs, FullWitness)
        THEN /\ computeSolutionPoly(FullWitness, qap).err = "none"
             /\ pr.out.err # "invalid witness"
        ELSE /\ computeSolutionPoly(FullWitness, qap).err = "invalid witness"
             /\ pr.out.err = "invalid witness"
             /\ "proof" \notin DOMAIN pr.out

C5_Witness ==
    /\ pc = "proved"
    /\ NumRows(r1cs) = 2
    /\ RowHolds(r1cs, FullWitness, 1) /\ ~RowHolds(r1cs, FullWitness, 2)
    /\ pr.out.err = "invalid witness"

\* C10: fromR1csToQap returns n polynomials in each of u, v, w, each of stored
\* length m, with u[i](k) = A[k-1][i], v[i](k) = B[k-1][i], w[i](k) = C[k-1][i]
\* for every variable i and row k in 1..m, and l unchanged.
C10_QapConstruction ==
    pc # "r1cs" =>
        /\ qap.l = r1cs.l
        /\ Len(qap.u) = NumVars(r1cs) /\ Len(qap.v) = NumVars(r1cs) /\ Len(qap.w) = NumVars(r1cs)
        /\ \A i \in 1..NumVars(r1cs) :
              /\ Len(qap.u[i]) = NumRows(r1cs)
              /\ Len(qap.v[i]) = NumRows(r1cs)
              /\ Len(qap.w[i]) = NumRows(r1cs)
              /\ \A k \in 1..NumRows(r1cs) :
                    /\ evalPoly(qap.u[i], ToFr(k)) = r1cs.A[k][i]
                    /\ evalPoly(qap.v[i], ToFr(k)) = r1cs.B[k][i]
                    /\ evalPoly(qap.w[i], ToFr(k)) = r1cs.C[k][i]

C10_Witness ==
    /\ pc = "qap"
    /\ NumRows(r1cs) = 2 /\ NumVars(r1cs) = 3
    /\ r1cs.A # r1cs.B /\ r1cs.B # r1cs.C
    /\ qap.u # qap.v

(***************************************************************************)
(* Properties of the polynomial algebra (SpecPoly).                        *)
(***************************************************************************)
Returned(op) == pc = "done" /\ call.op = op

\* addPolys(mulPolys(quotient, q), remainder) for the returned pair.
Recomposed == addPolys(mulPolys(ret.quotient, call.rhs), ret.remainder)

Coeff(p, i) == IF i <= Len(p) THEN p[i] ELSE 0

\* p and q are the same polynomial: equal coefficient by coefficient, the
\* shorter one padded with zeros.
SamePoly(p, q) == \A i \in 1..Max(Len(p), Len(q)) : Coeff(p, i) = Coeff(q, i)

\* C6 as stated: divPolys(p, q) returns (quotient, remainder) with
\* p == addPolys(mulPolys(quotient, q), remainder), as stored sequences.
C6_DivisionIdentity == Returned("divPolys") => call.lhs = Recomposed

\* C6 as amended: addPolys(mulPolys(quotient, q), remainder) is the same
\* polynomial as p; it is the same stored sequence when len(p) >= len(q) - 1,
\* and otherwise p padded with zeros to stored length len(q) - 1.
C6_DivisionIdentityUpToPadding ==
    Returned("divPolys") =>
        /\ SamePoly(call.lhs, Recomposed)
        /\ Len(Recomposed) = Max(Len(call.lhs), Len(call.rhs) - 1)

C6_Witness ==
    /\ Returned("divPolys")
    /\ Len(call.lhs) = 1 /\ Len(call.rhs) = 3 /\ call.lhs[1] # 0
    /\ ret.quotient = <<>>

\* C7: for pairwise distinct xs and ys of the same length, interpolate(xs, ys)
\* has stored length len(xs) and evaluates to ys[i] at xs[i] for every i.
C7_InterpolationRoundTrip ==
    Returned("interpolate") =>
        /\ Len(ret) = Len(call.xs)
        /\ \A i \in 1..Len(call.xs) : evalPoly(ret, call.xs[i]) = call.ys[i]

C7_Witness ==
    /\ Returned("interpolate")
    /\ Len(call.xs) = 3
    /\ call.ys[1] = 0 /\ call.ys[2] # 0 /\ call.ys[3] # 0
    /\ ret[3] # 0

\* C8: tPoly(m) has stored length m + 1 and last coefficient 1, and evaluates
\* to zero at every k in 1..m.
C8_VanishingPolynomial ==
    Returned("tPoly") =>
        /\ Len(ret) = call.degree + 1
        /\ ret[call.degree + 1] = 1
        /\ \A k \in 1..call.degree : evalPoly(ret, ToFr(k)) = 0

C8_Witness == Returned("tPoly") /\ call.degree = 3 /\ ret = <<4, 1, 4, 1>>

\* C9: mulPolys(p, addPolys(q, r)) equals
\* addPolys(mulPolys(p, q), mulPolys(p, r)), also for operands of different
\* stored lengths.
C9_Distributivity ==
    Returned("mulAdd") =>
        ret = addPolys(mulPolys(call.p, call.q), mulPolys(call.p, call.r))

C9_Witness ==
    /\ Returned("mulAdd")
    /\ Len(call.p) = 2 /\ Len(call.q) = 2 /\ Len(call.r) = 1
    /\ call.p[2] # 0 /\ call.q[2] # 0 /\ call.r[1] # 0
    /\ Len(ret) = 3

(***************************************************************************)
(* Properties of setup (Spec).                                             *)
(***************************************************************************)
\* The scalar a point encodes: the k with point = generator * k.
Log(point) == CHOOSE k \in Fr : PointMul(Generator, k) = point

SetupReturned == pc = "setup" /\ ts.err = "none"

\* The values of tau the returned powers of tau encode: tauG1[1] encodes
\* tau^1 when there are two or more powers, and any tau fits a single power.
EncodedTaus == IF Len(ts.tauG1) >= 2 THEN {Log(ts.tauG1[2])} ELSE Fr

\* beta*u_i(tau) + alpha*v_i(tau) + w_i(tau) for variable i (1-based), each
\* polynomial evaluated on its own.
Combination(i, tau) ==
    FAdd(FAdd(FMul(Log(ts.betaG1), evalPoly(qap.u[i], tau)),
              FMul(Log(ts.alphaG1), evalPoly(qap.v[i], tau))),
         evalPoly(qap.w[i], tau))

\* C11: setup split.  For a QAP with n variables and public boundary l <= n-1,
\* setup returns cTauPublicG1 with l+1 entries and cTauPrivateG1 with n-l-1
\* entries; public entry i encodes (beta*u_i(tau) + alpha*v_i(tau) +
\* w_i(tau))/gamma, private entry j encodes the combination of variable l+1+j
\* divided by delta; tauG1, tauG2 and tTauInvDeltaG1 have m entries each.
C11_SetupSplit ==
    SetupReturned =>
        /\ Len(ts.cTauPublicG1) = qap.l + 1
        /\ Len(ts.cTauPrivateG1) = NumVars(r1cs) - qap.l - 1
        /\ Len(ts.tauG1) = NumRows(r1cs)
        /\ Len(ts.tauG2) = NumRows(r1cs)
        /\ Len(ts.tTauInvDeltaG1) = NumRows(r1cs)
        /\ \A tau \in EncodedTaus :
              /\ \A i \in 1..Len(ts.cTauPublicG1) :
                    ts.cTauPublicG1[i] =
                        PointMul(Generator, FMul(Combination(i, tau), FInv(Log(ts.gammaG2))))
              /\ \A j \in 1..Len(ts.cTauPrivateG1) :
                    ts.cTauPrivateG1[j] =
                        PointMul(Generator,
                                 FMul(Combination(qap.l + 1 + j, tau), FInv(Log(ts.deltaG1))))

C11_Witness ==
    /\ SetupReturned
    /\ r1cs = TestR1cs
    /\ Len(ts.cTauPublicG1) = 2 /\ Len(ts.cTauPrivateG1) = 4
    /\ ts.gammaG2 # ts.deltaG2
    /\ ts.cTauPublicG1[2] # 0 /\ ts.cTauPrivateG1[4] # 0
    /\ ts.cTauPublicG1[2] # ts.cTauPrivateG1[1]

(***************************************************************************)
(* Properties of prove's folds (Spec, SpecQap).                            *)
(***************************************************************************)
NoPrivateVariables == r1cs.l = NumVars(r1cs) - 1

\* C12: no private variables.  For an R1CS in which every variable is public
\* (l = n-1) and a witness satisfying it, prove raises no error and returns a
\* proof that verify accepts.  Stated for two or more constraints, where the
\* quotient h is not empty.
C12_NoPrivateVariables ==
    (NoPrivateVariables /\ NumRows(r1cs) >= 2) =>
        /\ (Proved /\ Satisfies(r1cs, FullWitness)) => pr.out.err = "none"
        /\ pc = "verified" => (vr.err = "none" /\ vr.ok)

\* What computeSolutionPoly returns for the witness given to prove.
Solution == computeSolutionPoly(FullWitness, qap)

\* What computeDivisorPoly returns for that solution's ht and tPoly(m).
Divisor == computeDivisorPoly(Solution.ht, tPoly(Len(qap.u[1])))

\* C13: whenever computeSolutionPoly returns ht without raising,
\* computeDivisorPoly(ht, tPoly(m)) does not raise the non-zero-remainder
\* error, for m >= 2 the quotient h has stored length m-1, and every index of
\* the fold of h against the m-entry tTauInvDeltaG1 in prove is in range: prove
\* raises neither the remainder error nor a TypeError of an undefined point.
C13_QuotientFits ==
    (pc = "proved" /\ Solution.err = "none") =>
        /\ Divisor.err = "none"
        /\ NumRows(r1cs) >= 2 => Len(Divisor.h) = NumRows(r1cs) - 1
        /\ Len(ts.tTauInvDeltaG1) = NumRows(r1cs)
        /\ ~MapMulThrows(Divisor.h, ts.tTauInvDeltaG1)
        /\ pr.out.err \notin {"remainder", "undefined point"}

C13_Witness ==
    /\ pc = "proved"
    /\ NumRows(r1cs) = 2
    /\ Solution.err = "none"
    /\ Len(Solution.ht) = 3 /\ Solution.ht[3] # 0
    /\ Divisor.h # <<0>>
    /\ pr.out.err = "none"

====
